---- MODULE Spec2Model ----
(***************************************************************************)
(* Model of src/Codereviewer.py: the CodeReviewer object (issues, lines,   *)
(* tree), the analyze pipeline (load, parse, guard, link, style, rule      *)
(* catalog) and the rules the catalog runs, over a bounded universe of     *)
(* source texts and the syntax trees the parser returns for them.          *)
(***************************************************************************)
EXTENDS Integers, Sequences, FiniteSets, TLC

(***************************************************************************)
(* Bounds of the model.                                                    *)
(***************************************************************************)
\* statements (plus the expression nodes they own) of a generated source
MaxStmts == 3
\* analyze calls made on one CodeReviewer in a repeated session
MaxCalls == 2
\* lines of a source of the blank-line family
MaxLines == 5

(***************************************************************************)
(* Syntax trees.  A tree is a sequence of node records in pre-order; node  *)
(* 1 is the Module.  up is the index of the structural parent (0 for the   *)
(* root), slot the field of the parent that holds the node, lineno the     *)
(* line the parser reports, names the dotted names the node carries (the   *)
(* aliases of an Import, the module of an ImportFrom, the id of a Name,    *)
(* the name of a FunctionDef).  The tests and targets of If, While and For *)
(* are not represented.                                                    *)
(***************************************************************************)
Node(kind, up, slot, lineno, names) ==
    [kind |-> kind, up |-> up, slot |-> slot, lineno |-> lineno, names |-> names]

ModuleNode == Node("Module", 0, "root", 0, << >>)

\* the statement-list fields of each node kind, in ast's _fields order
Slots(kind) ==
    CASE kind = "Module"        -> <<"body">>
      [] kind = "FunctionDef"   -> <<"body">>
      [] kind = "ExceptHandler" -> <<"body">>
      [] kind = "If"            -> <<"body", "orelse">>
      [] kind = "For"           -> <<"body", "orelse">>
      [] kind = "While"         -> <<"body", "orelse">>
      [] kind = "Try"           -> <<"body", "handlers", "orelse", "finalbody">>
      [] kind = "Expr"          -> <<"value">>
      [] OTHER                  -> << >>

SlotRank(kind, slot) ==
    CHOOSE i \in 1..Len(Slots(kind)) : Slots(kind)[i] = slot

\* the statement vocabularies of the generated families of sources: loops
\* with break and continue, functions with return, and imports with the
\* names that read them
Stmts(kinds) == { Node(k, 0, "", 0, IF k = "FunctionDef" THEN << <<"f">> >> ELSE << >>) : k \in kinds }

LoopStmts == Stmts({"FunctionDef", "If", "For", "While", "Break", "Continue"})

ReturnStmts == Stmts({"FunctionDef", "If", "While", "Try", "Return", "Pass"})

ImportStmts ==
    Stmts({"If"})
        \cup { Node("Import", 0, "", 0, << <<"math">>, <<"os">> >>) }
        \cup { Node("ImportFrom", 0, "", 0, << m >>) : m \in { <<"os", "path">>, << >> } }

HandlerNode == Node("ExceptHandler", 0, "", 0, << >>)

ExprNode == Node("Expr", 0, "", 0, << >>)

NameNodes == { Node("Name", 0, "value", 0, << <<id>> >>) : id \in {"math", "os"} }

RECURSIVE AncestorsOrSelf(_, _)
AncestorsOrSelf(t, i) ==
    IF i = 0 THEN {} ELSE {i} \cup AncestorsOrSelf(t, t[i].up)

ChildrenOf(t, p) == { i \in 1..Len(t) : t[i].up = p }

LastLine(t) == t[Len(t)].lineno

IsCompound(kind) ==
    kind \in {"FunctionDef", "ExceptHandler", "If", "For", "While", "Try"}

\* the places where the next node in pre-order can be attached: a compound
\* statement just opened takes its first body statement next (the grammar
\* allows no empty body), otherwise any later slot of a node on the path
\* from the last node to the root
Places(t) ==
    IF IsCompound(t[Len(t)].kind)
    THEN { <<Len(t), "body">> }
    ELSE { ps \in AncestorsOrSelf(t, Len(t)) \X {"body", "handlers", "orelse", "finalbody"} :
             /\ \E j \in 1..Len(Slots(t[ps[1]].kind)) : Slots(t[ps[1]].kind)[j] = ps[2]
             /\ \A c \in ChildrenOf(t, ps[1]) :
                   SlotRank(t[ps[1]].kind, t[c].slot) <= SlotRank(t[ps[1]].kind, ps[2]) }

\* "else:" and "finally:" take a line of their own before the first statement
HeaderLines(t, p, s) ==
    IF s \in {"orelse", "finalbody"} /\ \A c \in ChildrenOf(t, p) : t[c].slot # s
    THEN 1 ELSE 0

Attach(t, p, s, nd) ==
    Append(t, Node(nd.kind, p, s, LastLine(t) + HeaderLines(t, p, s) + 1, nd.names))

\* an expression statement whose value reads the name nm
AttachExpr(t, p, s, nm) ==
    LET e == Attach(t, p, s, ExprNode)
    IN  Append(e, Node(nm.kind, Len(e), "value", LastLine(e), nm.names))

\* every way of adding one statement to t
Grow(t, stmts, reads) ==
    UNION { IF ps[2] = "handlers"
            THEN { Attach(t, ps[1], ps[2], HandlerNode) }
            ELSE { Attach(t, ps[1], ps[2], nd) : nd \in stmts }
                 \cup { AttachExpr(t, ps[1], ps[2], nm) : nm \in reads }
          : ps \in Places(t) }

RECURSIVE Grown(_, _, _)
Grown(n, stmts, reads) ==
    IF n = 0 THEN { <<ModuleNode>> }
    ELSE LET prev == Grown(n - 1, stmts, reads)
         IN  prev \cup UNION { Grow(t, stmts, reads) : t \in prev }

InSlot(t, p, s) == { c \in ChildrenOf(t, p) : t[c].slot = s }

\* what the grammar demands of a tree the parser returns
WellFormed(t) ==
    \A i \in 1..Len(t) :
        /\ IsCompound(t[i].kind) => InSlot(t, i, "body") # {}
        /\ t[i].kind = "Try" =>
              /\ InSlot(t, i, "handlers") # {} \/ InSlot(t, i, "finalbody") # {}
              /\ InSlot(t, i, "orelse") # {} => InSlot(t, i, "handlers") # {}

TreesOf(n) ==
    { t \in Grown(n, LoopStmts, {}) \cup Grown(n, ReturnStmts, {})
              \cup Grown(n, ImportStmts, NameNodes) :
        WellFormed(t) }

Trees == TreesOf(MaxStmts)

(***************************************************************************)
(* Source texts.  A text is a sequence of tokens: NL is the newline, any   *)
(* other token is the content of one line (its leading spaces, its first   *)
(* word, the number of commas in it).  A Source pairs a text with what the *)
(* external collaborators return for it: ast is the tree ast.parse builds, *)
(* or SyntaxError when it raises; style is pycodestyle's total_errors.     *)
(***************************************************************************)
Token(indent, head, commas) == [indent |-> indent, head |-> head, commas |-> commas]

NL == Token(0, "\n", 0)

SyntaxError == << >>

Source(text, ast, style) == [text |-> text, ast |-> ast, style |-> style]

Depth(t, i) == Cardinality(AncestorsOrSelf(t, i)) - 1

HeadWord(nd) ==
    CASE nd.kind = "FunctionDef"   -> "def"
      [] nd.kind = "ExceptHandler" -> "except:"
      [] nd.kind = "If"            -> "if"
      [] nd.kind = "For"           -> "for"
      [] nd.kind = "While"         -> "while"
      [] nd.kind = "Try"           -> "try:"
      [] nd.kind = "Return"        -> "return"
      [] nd.kind = "Break"         -> "break"
      [] nd.kind = "Continue"      -> "continue"
      [] nd.kind = "Pass"          -> "pass"
      [] nd.kind = "Import"        -> "import"
      [] nd.kind = "ImportFrom"    -> "from"
      [] OTHER                     -> "expr"

\* the content of line k of the text t was parsed from, four spaces a level
LineOf(t, k) ==
    LET here == { i \in 2..Len(t) : t[i].lineno = k /\ t[i].kind # "Name" }
        next == CHOOSE i \in 2..Len(t) :
                    /\ t[i].lineno > k
                    /\ \A j \in 2..Len(t) : t[j].lineno > k => t[i].lineno <= t[j].lineno
    IN  IF here # {}
        THEN LET i == CHOOSE i \in here : TRUE
             IN  Token(4 * (Depth(t, i) - 1), HeadWord(t[i]),
                       IF t[i].kind = "Import" THEN Len(t[i].names) - 1 ELSE 0)
        ELSE Token(4 * (Depth(t, t[next].up) - 1),
                   IF t[next].slot = "orelse" THEN "else:" ELSE "finally:", 0)

RECURSIVE TextUpTo(_, _)
TextUpTo(t, k) ==
    IF k = 0 THEN << >> ELSE TextUpTo(t, k - 1) \o << LineOf(t, k), NL >>

Unparse(t) == TextUpTo(t, LastLine(t))

GeneratedSources == { Source(Unparse(t), t, 0) : t \in Trees }

\* the sources of repeated sessions
Stmt(kind) == Node(kind, 0, "", 0, << >>)

EmptyTree == <<ModuleNode>>

BreakTree == Attach(EmptyTree, 1, "body", Stmt("Break"))

ImportTree == Attach(EmptyTree, 1, "body", Node("Import", 0, "", 0, << <<"math">>, <<"os">> >>))

\* if x: pass / else: return; pass
ElseReturnTree ==
    Attach(Attach(Attach(Attach(EmptyTree, 1, "body", Stmt("If")),
                         2, "body", Stmt("Pass")),
                  2, "orelse", Stmt("Return")),
           2, "orelse", Stmt("Pass"))

\* for x in y: if x: break
LoopBreakTree ==
    Attach(Attach(Attach(EmptyTree, 1, "body", Stmt("For")), 2, "body", Stmt("If")),
           3, "body", Stmt("Break"))

MalformedSource == Source(<< Token(0, "def (", 0) >>, SyntaxError, 0)

RepeatSources ==
    { MalformedSource,
      Source(Unparse(EmptyTree), EmptyTree, 0),
      Source(Unparse(BreakTree), BreakTree, 0),
      Source(Unparse(BreakTree), BreakTree, 2),
      Source(Unparse(ImportTree), ImportTree, 0),
      Source(Unparse(ElseReturnTree), ElseReturnTree, 0),
      Source(Unparse(LoopBreakTree), LoopBreakTree, 0) }

\* the blank-line family: texts of pass statements, empty lines and lines of
\* spaces, joined by newlines, with the module of pass statements they parse to
LineKinds == { << Token(0, "pass", 0) >>, << >>, << Token(4, "", 0) >> }

LineSeqs == UNION { [1..n -> LineKinds] : n \in 1..MaxLines }

RECURSIVE Join(_)
Join(ls) ==
    IF Len(ls) = 1 THEN ls[1] ELSE ls[1] \o << NL >> \o Join(Tail(ls))

RECURSIVE PassNodes(_, _)
PassNodes(ls, k) ==
    IF k > Len(ls) THEN << >>
    ELSE (IF ls[k] = << Token(0, "pass", 0) >>
          THEN << Node("Pass", 1, "body", k, << >>) >> ELSE << >>)
         \o PassNodes(ls, k + 1)

BlankLineSources ==
    { Source(Join(ls), << ModuleNode >> \o PassNodes(ls, 1), 0) : ls \in LineSeqs }

Sources == GeneratedSources \cup RepeatSources \cup BlankLineSources

(***************************************************************************)
(* The CodeReviewer object and the analyze call in progress.               *)
(***************************************************************************)
VARIABLES
    issues,     \* self.issues: the diagnostics, in order of appending
    lines,      \* self.lines: the text split at newlines
    tree,       \* self.tree: the tree of the last successful parse, or None
    parent,     \* the parent attribute of each node of self.tree (0: not set)
    pc,         \* where the current analyze call stands ("idle": none running)
    step,       \* index in Pipeline of the method analyze calls next
    code,       \* the argument of the current (or last) analyze call
    calls,      \* analyze calls begun on this object
    outcome,    \* how the last call ended: "returned" or "raised"
    trace,      \* the methods the current call has invoked, with what each appended
    history,    \* what get_issues returned after each finished call
    session     \* "single": one call, any source; "repeated": up to MaxCalls calls

vars == << issues, lines, tree, parent, pc, step, code, calls, outcome, trace,
           history, session >>

None == << >>

Diag(msg, line, name) == [msg |-> msg, line |-> line, name |-> name]

Invoked(rule, out, raised) == [rule |-> rule, out |-> out, raised |-> raised]

\* what a method did: the diagnostics it appended and whether it raised
Result(out, raised) == [out |-> out, raised |-> raised]

(***************************************************************************)
(* Tree traversal.                                                         *)
(***************************************************************************)
RECURSIVE Ascending(_)
Ascending(S) ==
    IF S = {} THEN << >>
    ELSE LET m == CHOOSE x \in S : \A y \in S : x <= y
         IN  <<m>> \o Ascending(S \ {m})

\* ast.iter_child_nodes: the children field by field, each list in order
IterChildNodes(t, p) == Ascending(ChildrenOf(t, p))

\* ast.walk: breadth first from the root
RECURSIVE WalkFrom(_, _)
WalkFrom(t, todo) ==
    IF todo = << >> THEN << >>
    ELSE <<Head(todo)>> \o WalkFrom(t, Tail(todo) \o IterChildNodes(t, Head(todo)))

Walk(t) == WalkFrom(t, <<1>>)

\* node.body, for the node kinds that have the attribute
HasBody(kind) ==
    kind \in {"Module", "FunctionDef", "ExceptHandler", "If", "For", "While", "Try"}

Body(t, p) == Ascending(InSlot(t, p, "body"))

Orelse(t, p) == Ascending(InSlot(t, p, "orelse"))

Handlers(t, p) == Ascending(InSlot(t, p, "handlers"))

\* list.index: 0 stands for ValueError
IndexOf(seq, x) ==
    IF \E k \in 1..Len(seq) : seq[k] = x
    THEN CHOOSE k \in 1..Len(seq) : seq[k] = x /\ \A j \in 1..(k - 1) : seq[j] # x
    ELSE 0

\* the chain node, node.parent, node.parent.parent, ... while the attribute is set
RECURSIVE Parents(_, _)
Parents(par, i) ==
    IF i = 0 THEN << >> ELSE <<i>> \o Parents(par, par[i])

Range(seq) == { seq[k] : k \in 1..Len(seq) }

RECURSIVE Flatten(_)
Flatten(seqs) ==
    IF seqs = << >> THEN << >> ELSE Head(seqs) \o Flatten(Tail(seqs))

\* the diagnostics of a rule that appends one per selected node
PerNode(t, sel, msg) ==
    [k \in 1..Len(sel) |-> Diag(msg, t[sel[k]].lineno, "")]

PerNamedNode(t, sel, msg) ==
    [k \in 1..Len(sel) |-> Diag(msg, 0, t[sel[k]].names[1][1])]

(***************************************************************************)
(* The steps of analyze before the catalog.                                *)
(***************************************************************************)
\* str.split('\n')
RECURSIVE Split(_, _)
Split(text, piece) ==
    IF text = << >> THEN << piece >>
    ELSE IF Head(text) = NL THEN << piece >> \o Split(Tail(text), << >>)
         ELSE Split(Tail(text), Append(piece, Head(text)))

\* line.strip() is empty
Blank(line) == \A k \in 1..Len(line) : line[k].head = ""

\* ast.parse(code)
Parse(src) == src.ast

SyntaxErrorDiag == Diag("SyntaxError", 0, "invalid syntax")

\* the parent attributes after check_line_numbers: every node the walk
\* visits sets the attribute of each of its children
RECURSIVE LinkWalk(_, _, _)
LinkWalk(t, todo, par) ==
    IF todo = << >> THEN par
    ELSE LET node == Head(todo)
         IN  LinkWalk(t, Tail(todo),
                      [i \in 1..Len(t) |-> IF i \in ChildrenOf(t, node) THEN node ELSE par[i]])

\* a linker that visits the root alone
LinkRootOnly(t, par) == LinkWalk(t, <<1>>, par)

CheckLineNumbersResult(t, par) == LinkWalk(t, Walk(t), par)

CheckStyleResult(src) ==
    Result(IF src.style > 0 THEN << Diag("Style issues found.", 0, "") >> ELSE << >>, FALSE)

(***************************************************************************)
(* The rules of the catalog.  Each takes the tree, the parent attributes   *)
(* and the lines, and yields the diagnostics it appends, in order.         *)
(***************************************************************************)
OfKind(t, kinds) == SelectSeq(Walk(t), LAMBDA i : t[i].kind \in kinds)

\* no statement of the vocabulary is a docstring, so every function lacks one
CheckMissingDocstrings(t) ==
    PerNamedNode(t, OfKind(t, {"FunctionDef"}), "Missing docstring in function")

\* name.split('.')[0], and '' for the missing module of a relative import
TopLevel(dotted) == IF dotted = << >> THEN "" ELSE dotted[1]

\* an import statement counted once, by its first alias
ImportedByFirstAlias(nd) ==
    IF nd.kind \in {"Import", "ImportFrom"} THEN << TopLevel(nd.names[1]) >> ELSE << >>

ImportedBy(nd) ==
    CASE nd.kind = "Import"     -> [k \in 1..Len(nd.names) |-> TopLevel(nd.names[k])]
      [] nd.kind = "ImportFrom" -> << TopLevel(nd.names[1]) >>
      [] OTHER                  -> << >>

UsedImports(t) == { t[i].names[1][1] : i \in { j \in 1..Len(t) : t[j].kind = "Name" } }

CheckUnusedImports(t) ==
    LET walk    == Walk(t)
        imports == Flatten([k \in 1..Len(walk) |-> ImportedBy(t[walk[k]])])
        unused  == SelectSeq(imports, LAMBDA i : i \notin UsedImports(t))
    IN  [k \in 1..Len(unused) |-> Diag("Unused import", 0, unused[k])]

\* the first node with a body attribute on the chain from i up the parents
RECURSIVE BodyOwner(_, _, _)
BodyOwner(t, par, i) ==
    IF i = 0 THEN 0
    ELSE IF HasBody(t[i].kind) THEN i ELSE BodyOwner(t, par, par[i])

RECURSIVE UnreachableWalk(_, _, _, _)
UnreachableWalk(t, par, todo, out) ==
    IF todo = << >> THEN Result(out, FALSE)
    ELSE LET node  == Head(todo)
             owner == BodyOwner(t, par, node)
             body  == Body(t, owner)
             at    == IndexOf(body, node)
         IN  IF t[node].kind # "Return" \/ owner = 0
             THEN UnreachableWalk(t, par, Tail(todo), out)
             ELSE IF at = 0
                  THEN Result(out, TRUE)
                  ELSE UnreachableWalk(t, par, Tail(todo),
                           out \o PerNode(t, SubSeq(body, at + 1, Len(body)),
                                          "Unreachable code after return in line"))

CheckUnreachableCode(t, par) == UnreachableWalk(t, par, Walk(t), << >>)

CheckNestedFunctions(t) ==
    LET outer == OfKind(t, {"FunctionDef"})
    IN  Flatten([k \in 1..Len(outer) |->
            PerNamedNode(t, SelectSeq(Body(t, outer[k]), LAMBDA i : t[i].kind = "FunctionDef"),
                         "Nested function")])

CheckEmptyBlocks(t) ==
    PerNode(t, SelectSeq(Walk(t), LAMBDA i : HasBody(t[i].kind) /\ Body(t, i) = << >>),
            "Empty block at line")

\* a search that stops at the immediate parent
FoundAtParentOnly(t, par, i, kinds) ==
    t[i].kind \in kinds \/ (par[i] # 0 /\ t[par[i]].kind \in kinds)

\* some node of the chain from i up the parents is of one of the kinds
FoundAmongParents(t, par, i, kinds) ==
    \E p \in Range(Parents(par, i)) : t[p].kind \in kinds

CheckBreakOutsideLoop(t, par) ==
    PerNode(t, SelectSeq(OfKind(t, {"Break"}),
                         LAMBDA i : ~FoundAmongParents(t, par, i, {"For", "While"})),
            "Break outside loop at line")

CheckContinueOutsideLoop(t, par) ==
    PerNode(t, SelectSeq(OfKind(t, {"Continue"}),
                         LAMBDA i : ~FoundAmongParents(t, par, i, {"For", "While"})),
            "Continue outside loop at line")

CheckReturnOutsideFunction(t, par) ==
    PerNode(t, SelectSeq(OfKind(t, {"Return"}),
                         LAMBDA i : ~FoundAmongParents(t, par, i, {"FunctionDef", "AsyncFunctionDef"})),
            "Return outside function at line")

\* node.parent raises AttributeError on a node whose attribute was never set
RECURSIVE PassWalk(_, _, _, _)
PassWalk(t, par, todo, out) ==
    IF todo = << >> THEN Result(out, FALSE)
    ELSE LET node == Head(todo)
         IN  IF par[node] = 0
             THEN Result(out, TRUE)
             ELSE PassWalk(t, par, Tail(todo),
                      IF t[par[node]].kind \in {"FunctionDef", "ClassDef", "If"}
                      THEN out
                      ELSE Append(out, Diag("Pass statement might be unnecessary at line",
                                            t[node].lineno, "")))

CheckPassStatements(t, par) == PassWalk(t, par, OfKind(t, {"Pass"}), << >>)

\* the rules that read self.lines; k is the 1-based line number
LineNumbers(ls) == [k \in 1..Len(ls) |-> k]

PerLine(hit, msg) == [k \in 1..Len(hit) |-> Diag(msg, hit[k], "")]

CheckMultipleImportsOnOneLine(ls) ==
    PerLine(SelectSeq(LineNumbers(ls),
                      LAMBDA k : /\ ~Blank(ls[k])
                                 /\ ls[k][1].head = "import"
                                 /\ \E j \in 1..Len(ls[k]) : ls[k][j].commas > 0),
            "Multiple imports on one line at line")

CheckBadIndentation(ls) ==
    PerLine(SelectSeq(LineNumbers(ls), LAMBDA k : ~Blank(ls[k]) /\ ls[k][1].indent % 4 # 0),
            "Bad indentation at line")

\* line.rstrip() != line: of the lines of the vocabulary, those of spaces alone
CheckTrailingWhitespace(ls) ==
    PerLine(SelectSeq(LineNumbers(ls),
                      LAMBDA k : /\ ls[k] # << >>
                                 /\ ls[k][Len(ls[k])].head = ""
                                 /\ ls[k][Len(ls[k])].indent > 0),
            "Trailing whitespace at line")

RECURSIVE BlankLinesFrom(_, _, _, _)
BlankLinesFrom(ls, i, blank_count, out) ==
    IF i > Len(ls) THEN out
    ELSE IF Blank(ls[i])
         THEN BlankLinesFrom(ls, i + 1, blank_count + 1, out)
         ELSE BlankLinesFrom(ls, i + 1, 0,
                  IF blank_count > 2
                  THEN Append(out, Diag("Multiple blank lines before line", i, ""))
                  ELSE out)

CheckMultipleConsecutiveBlankLines(ls) == BlankLinesFrom(ls, 1, 0, << >>)

CheckExceptionHandling(t) ==
    PerNode(t, SelectSeq(OfKind(t, {"Try"}), LAMBDA i : Handlers(t, i) = << >>),
            "Try without except at line")

\* every handler of the vocabulary is a bare except
CheckEmptyExceptions(t) ==
    PerNode(t, OfKind(t, {"ExceptHandler"}), "Catch-all except at line")

CheckUselessElseOnLoop(t) ==
    PerNode(t, SelectSeq(OfKind(t, {"For", "While"}), LAMBDA i : Orelse(t, i) # << >>),
            "Else on loop at line")

\* the rules that match nothing the vocabulary of trees and lines contains:
\* no class, assignment, call, raise, global, nonlocal, lambda, constant,
\* argument or default; the one function name, f, is lower case, no builtin
\* and no dunder; every return is bare; no line has a comment, a semicolon,
\* a tab, "TODO", ".format(" or 80 characters; fewer
\* than 11 branches and 51 statements fit in a function
SilentRules ==
    { "check_class_names", "check_function_names", "check_variable_names",
      "check_constant_names", "check_redefined_builtins", "check_magic_methods",
      "check_too_many_branches", "check_too_many_arguments",
      "check_raise_without_exception", "check_global_usage", "check_nonlocal_usage",
      "check_mutable_defaults", "check_print_statements", "check_exec_usage",
      "check_eval_usage", "check_comment_format", "check_magic_number",
      "check_boolean_traps", "check_todo_comments", "check_long_lines",
      "check_semicolons", "check_tabs",
      "check_multiple_statements", "check_direct_exit_calls", "check_recursion_limit",
      "check_lambda_usage", "check_format_vs_fstring", "check_mutable_class_vars",
      "check_inconsistent_return", "check_wildcard_imports",
      "check_very_large_functions" }

RuleResult(rule, t, par, ls) ==
    CASE rule = "check_missing_docstrings" -> Result(CheckMissingDocstrings(t), FALSE)
      [] rule = "check_unused_imports" -> Result(CheckUnusedImports(t), FALSE)
      [] rule = "check_unreachable_code" -> CheckUnreachableCode(t, par)
      [] rule = "check_nested_functions" -> Result(CheckNestedFunctions(t), FALSE)
      [] rule = "check_empty_blocks" -> Result(CheckEmptyBlocks(t), FALSE)
      [] rule = "check_break_outside_loop" -> Result(CheckBreakOutsideLoop(t, par), FALSE)
      [] rule = "check_continue_outside_loop" -> Result(CheckContinueOutsideLoop(t, par), FALSE)
      [] rule = "check_return_outside_function" -> Result(CheckReturnOutsideFunction(t, par), FALSE)
      [] rule = "check_pass_statements" -> CheckPassStatements(t, par)
      [] rule = "check_multiple_imports_on_one_line" -> Result(CheckMultipleImportsOnOneLine(ls), FALSE)
      [] rule = "check_bad_indentation" -> Result(CheckBadIndentation(ls), FALSE)
      [] rule = "check_trailing_whitespace" -> Result(CheckTrailingWhitespace(ls), FALSE)
      [] rule = "check_exception_handling" -> Result(CheckExceptionHandling(t), FALSE)
      [] rule = "check_empty_exceptions" -> Result(CheckEmptyExceptions(t), FALSE)
      [] rule = "check_useless_else_on_loop" -> Result(CheckUselessElseOnLoop(t), FALSE)
      [] rule = "check_multiple_consecutive_blank_lines" ->
             Result(CheckMultipleConsecutiveBlankLines(ls), FALSE)
      [] rule \in SilentRules -> Result(<< >>, FALSE)

\* the methods analyze calls once the tree exists, in order
Pipeline ==
    << "check_line_numbers", "check_style", "check_missing_docstrings",
       "check_class_names", "check_function_names", "check_variable_names",
       "check_constant_names", "check_unused_imports", "check_redefined_builtins",
       "check_magic_methods", "check_unreachable_code", "check_too_many_branches",
       "check_too_many_arguments", "check_nested_functions", "check_empty_blocks",
       "check_break_outside_loop", "check_continue_outside_loop",
       "check_raise_without_exception", "check_return_outside_function",
       "check_global_usage", "check_nonlocal_usage", "check_mutable_defaults",
       "check_print_statements", "check_exec_usage", "check_eval_usage",
       "check_pass_statements", "check_comment_format", "check_magic_number",
       "check_boolean_traps", "check_todo_comments", "check_long_lines",
       "check_multiple_imports_on_one_line", "check_bad_indentation",
       "check_semicolons", "check_tabs", "check_trailing_whitespace",
       "check_multiple_statements", "check_exception_handling",
       "check_empty_exceptions", "check_useless_else_on_loop",
       "check_direct_exit_calls", "check_recursion_limit", "check_lambda_usage",
       "check_format_vs_fstring", "check_mutable_class_vars",
       "check_inconsistent_return", "check_wildcard_imports",
       "check_multiple_consecutive_blank_lines", "check_very_large_functions" >>

(***************************************************************************)
(* The state machine.                                                      *)
(***************************************************************************)
NoCode == Source(<< >>, SyntaxError, 0)

Init ==
    /\ issues = << >>
    /\ lines = << >>
    /\ tree = None
    /\ parent = << >>
    /\ pc = "idle"
    /\ step = 0
    /\ code = NoCode
    /\ calls = 0
    /\ outcome = "none"
    /\ trace = << >>
    /\ history = << >>
    /\ session \in {"single", "repeated"}

Observed(src, list, how) == [code |-> src, issues |-> list, outcome |-> how]

\* the caller calls reviewer.analyze(src)
Analyze(src) ==
    /\ pc = "idle"
    /\ calls < (IF session = "single" THEN 1 ELSE MaxCalls)
    /\ src \in (IF session = "single" THEN Sources ELSE RepeatSources)
    /\ code' = src
    /\ calls' = calls + 1
    /\ pc' = "load_code"
    /\ trace' = << >>
    /\ outcome' = "none"
    /\ UNCHANGED << issues, lines, tree, parent, step, history, session >>

LoadCode ==
    /\ pc = "load_code"
    /\ lines' = Split(code.text, << >>)
    /\ trace' = Append(trace, Invoked("load_code", << >>, FALSE))
    /\ pc' = "parse_code"
    /\ UNCHANGED << issues, tree, parent, step, code, calls, outcome, history, session >>

ParseCode ==
    /\ pc = "parse_code"
    /\ IF Parse(code) = SyntaxError
       THEN /\ issues' = Append(issues, SyntaxErrorDiag)
            /\ trace' = Append(trace, Invoked("parse_code", << SyntaxErrorDiag >>, FALSE))
            /\ UNCHANGED << tree, parent >>
       ELSE /\ tree' = Parse(code)
            /\ parent' = [i \in 1..Len(Parse(code)) |-> 0]
            /\ trace' = Append(trace, Invoked("parse_code", << >>, FALSE))
            /\ UNCHANGED issues
    /\ pc' = "tree_test"
    /\ UNCHANGED << lines, step, code, calls, outcome, history, session >>

\* if not self.tree: return
TreeTest ==
    /\ pc = "tree_test"
    /\ IF tree = None
       THEN /\ pc' = "idle"
            /\ outcome' = "returned"
            /\ history' = Append(history, Observed(code, issues, "returned"))
            /\ step' = 0
       ELSE /\ pc' = "run"
            /\ step' = 1
            /\ UNCHANGED << outcome, history >>
    /\ UNCHANGED << issues, lines, tree, parent, code, calls, trace, session >>

\* what follows a method of the pipeline: the next one, the return of
\* analyze, or the exception leaving analyze
After(r) ==
    /\ issues' = issues \o r.out
    /\ trace' = Append(trace, Invoked(Pipeline[step], r.out, r.raised))
    /\ IF r.raised
       THEN /\ pc' = "idle"
            /\ step' = 0
            /\ outcome' = "raised"
            /\ history' = Append(history, Observed(code, issues \o r.out, "raised"))
       ELSE IF step = Len(Pipeline)
            THEN /\ pc' = "idle"
                 /\ step' = 0
                 /\ outcome' = "returned"
                 /\ history' = Append(history, Observed(code, issues \o r.out, "returned"))
            ELSE /\ pc' = "run"
                 /\ step' = step + 1
                 /\ UNCHANGED << outcome, history >>

CheckLineNumbers ==
    /\ pc = "run"
    /\ Pipeline[step] = "check_line_numbers"
    /\ parent' = CheckLineNumbersResult(tree, parent)
    /\ After(Result(<< >>, FALSE))
    /\ UNCHANGED << lines, tree, code, calls, session >>

CheckStyle ==
    /\ pc = "run"
    /\ Pipeline[step] = "check_style"
    /\ After(CheckStyleResult(code))
    /\ UNCHANGED << lines, tree, parent, code, calls, session >>

RunRule ==
    /\ pc = "run"
    /\ Pipeline[step] \notin {"check_line_numbers", "check_style"}
    /\ After(RuleResult(Pipeline[step], tree, parent, lines))
    /\ UNCHANGED << lines, tree, parent, code, calls, session >>

Next ==
    \/ \E src \in Sources : Analyze(src)
    \/ LoadCode
    \/ ParseCode
    \/ TreeTest
    \/ CheckLineNumbers
    \/ CheckStyle
    \/ RunRule

Spec == Init /\ [][Next]_vars

(***************************************************************************)
(* The claims.                                                             *)
(***************************************************************************)
Finished == pc = "idle" /\ calls > 0

ParseFailed == Parse(code) = SyntaxError

\* what the current call has appended, method by method
Appended == Flatten([k \in 1..Len(trace) |-> trace[k].out])

\* how many entries of a list of diagnostics are d, or name a given name
Count(seq, d) == Cardinality({ k \in 1..Len(seq) : seq[k] = d })

CountNaming(seq, name) == Cardinality({ k \in 1..Len(seq) : seq[k].name = name })

\* the proper ancestors of a node, by the structure of the tree
Ancestors(t, i) == AncestorsOrSelf(t, t[i].up)

\* C1: after an analyze call on a malformed source the list get_issues
\* returns holds the parse-failure diagnostic and nothing else.
C1_MalformedYieldsOneDiagnostic ==
    (Finished /\ ParseFailed) => issues = << SyntaxErrorDiag >>

\* C2: the list is empty when an analyze call starts, and when the call is
\* over it holds exactly the diagnostics of that call.
C2_ListHoldsMostRecentCallOnly ==
    /\ pc = "load_code" => issues = << >>
    /\ Finished => issues = Appended

\* C3: two finished analyze calls on identical source text left identical
\* lists for get_issues.
C3_SameTextSameList ==
    \A i, j \in 1..Len(history) :
        history[i].code = history[j].code => history[i].issues = history[j].issues

\* C4: when an analyze call on a source that parsed is over, every method of
\* the catalog has been invoked exactly once in catalog order, and the list
\* is the concatenation of their outputs in that order.
C4_CatalogOrderConcatenation ==
    (Finished /\ ~ParseFailed) =>
        /\ SubSeq([k \in 1..Len(trace) |-> trace[k].rule], 3, Len(trace)) = Pipeline
        /\ issues = Appended

\* C5: no exception leaves an analyze call on a source that parsed.
C5_NoExceptionOnWellFormed ==
    ~ParseFailed => outcome # "raised"

\* C6: an analyze call whose source fails to parse invokes nothing after
\* parse_code: no linker, no style check, no rule.
C6_FailFast ==
    (calls > 0 /\ ParseFailed) =>
        \A k \in 1..Len(trace) : trace[k].rule \in {"load_code", "parse_code"}

\* out holds one diagnostic for each node of the kind with no loop above it
FlagsNodesOutsideLoop(out, kind, msg) ==
    LET outside == { i \in 1..Len(tree) :
                        /\ tree[i].kind = kind
                        /\ \A a \in Ancestors(tree, i) : tree[a].kind \notin {"For", "While"} }
    IN  /\ Len(out) = Cardinality(outside)
        /\ \A i \in outside :
              Count(out, Diag(msg, tree[i].lineno, "")) = 1

\* C7: the break (continue) rule emits one diagnostic, with the node's line,
\* for each Break (Continue) that has no For or While among its ancestors,
\* and nothing else.
C7_OutsideLoopIffNoLoopAncestor ==
    \A k \in 1..Len(trace) :
        /\ trace[k].rule = "check_break_outside_loop" =>
              FlagsNodesOutsideLoop(trace[k].out, "Break", "Break outside loop at line")
        /\ trace[k].rule = "check_continue_outside_loop" =>
              FlagsNodesOutsideLoop(trace[k].out, "Continue", "Continue outside loop at line")

\* a Break inside an If inside a For went through the break rule unflagged
C7_Witness ==
    \E k \in 1..Len(trace) :
        /\ trace[k].rule = "check_break_outside_loop"
        /\ trace[k].out = << >>
        /\ \E i \in 1..Len(tree) :
              /\ tree[i].kind = "Break"
              /\ tree[tree[i].up].kind = "If"
              /\ tree[tree[tree[i].up].up].kind = "For"

\* the pairs of a Return and a statement after it in the same sequence
AfterReturn(t) ==
    { rs \in (1..Len(t)) \X (1..Len(t)) :
        /\ t[rs[1]].kind = "Return"
        /\ t[rs[2]].up = t[rs[1]].up
        /\ t[rs[2]].slot = t[rs[1]].slot
        /\ rs[2] > rs[1] }

\* C8: the unreachable-code rule emits, for every Return, one diagnostic for
\* each statement after it in the same statement sequence, with that
\* statement's line, and nothing else.
C8_UnreachableAfterReturn ==
    \A k \in 1..Len(trace) :
        trace[k].rule = "check_unreachable_code" =>
            /\ Len(trace[k].out) = Cardinality(AfterReturn(tree))
            /\ \A s \in 1..Len(tree) :
                  Count(trace[k].out,
                        Diag("Unreachable code after return in line", tree[s].lineno, ""))
                      = Cardinality({ rs \in AfterReturn(tree) : rs[2] = s })

\* the aliases and modules imported under a top-level name
ImportOccurrences(t, name) ==
    { ik \in (1..Len(t)) \X (1..2) :
        /\ t[ik[1]].kind \in {"Import", "ImportFrom"}
        /\ ik[2] <= Len(t[ik[1]].names)
        /\ name = (IF t[ik[1]].names[ik[2]] = << >> THEN ""
                   ELSE Head(t[ik[1]].names[ik[2]])) }

NamesRead(t) == { t[i].names[1][1] : i \in { j \in 1..Len(t) : t[j].kind = "Name" } }

\* C9: the unused-import rule emits one diagnostic per import occurrence
\* whose top-level name is read nowhere in the tree, naming it, and none for
\* a name that is read.
C9_UnusedImportPerOccurrence ==
    \A k \in 1..Len(trace) :
        trace[k].rule = "check_unused_imports" =>
            /\ \A d \in Range(trace[k].out) :
                  d.msg = "Unused import" /\ d.name \in {"math", "os", "path", ""}
            /\ \A name \in {"math", "os", "path", ""} :
                  CountNaming(trace[k].out, name)
                      = IF name \in NamesRead(tree) THEN 0
                        ELSE Cardinality(ImportOccurrences(tree, name))

\* import math, os with neither read: one diagnostic for each
C9_Witness ==
    \E k \in 1..Len(trace) :
        /\ trace[k].rule = "check_unused_imports"
        /\ trace[k].out = << Diag("Unused import", 0, "math"), Diag("Unused import", 0, "os") >>
        /\ \E i \in 1..Len(tree) : tree[i].kind = "Import" /\ Len(tree[i].names) = 2

\* the rules that read the parent attribute
AncestryRules ==
    { "check_unreachable_code", "check_break_outside_loop", "check_continue_outside_loop",
      "check_return_outside_function", "check_pass_statements" }

\* C10: when a rule that reads the parent attribute is about to run, every
\* node of the tree but the root has its structural parent as attribute and
\* the root has none.
C10_LinkedBeforeAncestryRules ==
    (pc = "run" /\ Pipeline[step] \in AncestryRules) =>
        /\ Len(parent) = Len(tree)
        /\ \A i \in 1..Len(tree) : parent[i] = tree[i].up

\* the first ancestry rule is about to run on a tree three levels deep
C10_Witness ==
    /\ pc = "run"
    /\ Pipeline[step] = "check_unreachable_code"
    /\ \E i \in 1..Len(tree) : Depth(tree, i) = 3
    /\ \A i \in 2..Len(tree) : parent[i] = tree[i].up /\ parent[i] # 0

\* the maximal runs of three or more blank lines, as <<first, last>>
LongBlankRuns(ls) ==
    { ab \in (1..Len(ls)) \X (1..Len(ls)) :
        /\ ab[2] - ab[1] >= 2
        /\ \A k \in ab[1]..ab[2] : Blank(ls[k])
        /\ ab[1] = 1 \/ ~Blank(ls[ab[1] - 1])
        /\ ab[2] = Len(ls) \/ ~Blank(ls[ab[2] + 1]) }

\* C11: the blank-line rule emits exactly one diagnostic for every maximal
\* run of three or more blank lines of the source lines, wherever the run
\* stands, and none for a shorter run.
C11_OneDiagnosticPerLongBlankRun ==
    \A k \in 1..Len(trace) :
        trace[k].rule = "check_multiple_consecutive_blank_lines" =>
            /\ \A d \in Range(trace[k].out) : d.msg = "Multiple blank lines before line"
            /\ Len(trace[k].out) = Cardinality(LongBlankRuns(lines))

====
